---- MODULE Spec2Model ----
(***************************************************************************)
(* Model of screenpipe-app-tauri/src-tauri/src/analytics.rs:               *)
(* AnalyticsManager (send_event, start_periodic_event,                     *)
(* check_recording_health, track_enabled_pipes) and start_analytics.       *)
(*                                                                         *)
(* Three tasks use one AnalyticsManager: the one-shot task and the         *)
(* periodic task spawned by start_analytics, and the host application      *)
(* calling send_event on the handle it was given.  JSON objects are        *)
(* functions from keys to values; an error string is a record of its       *)
(* fixed text and the status code formatted into it (0: none).             *)
(***************************************************************************)
EXTENDS Integers, Sequences, FiniteSets, TLC

VARIABLES
    debug_assertions,   \* cfg!(debug_assertions) of the build
    env_debug,          \* TAURI_ENV_DEBUG == "true" in the environment
    main_pc,            \* "boot" before start_analytics, then "running"
    posthog_api_key,    \* AnalyticsManager fields
    distinct_id,
    interval,           \* seconds
    enabled,            \* the value inside Arc<Mutex<bool>>
    lock_owner,         \* task holding the tokio Mutex, or NoTask
    spawned,            \* tasks spawned by start_analytics
    pc,                 \* position of each task
    frame,              \* each task's current (or last) send_event call
    calls,              \* send_event calls of each task in its current unit
    trace,              \* HTTP requests issued by each task in its current unit
    health_resp,        \* periodic cycle: response of GET /health
    health_result,      \* periodic cycle: what check_recording_health returned
    pipes_resp,         \* periodic cycle: response of GET /pipes/list
    now,                \* seconds since start_analytics
    tick_deadline,      \* next completion time of interval.tick()
    adhoc_calls,        \* send_event calls made by the host application
    interval_hours,     \* the interval_hours handed to start_analytics
    in_flight,          \* HTTP requests of each task awaiting their response
    wake_flag,          \* what the periodic loop read at its last wake
    loop_start,         \* time start_periodic_event created its timer
    waited,             \* the pending interval.tick() was suspended
    toggles             \* changes of the flag made by the host application

vars == <<debug_assertions, env_debug, main_pc, posthog_api_key, distinct_id,
          interval, enabled, lock_owner, spawned, pc, frame, calls, trace,
          health_resp, health_result, pipes_resp, now, tick_deadline,
          adhoc_calls, interval_hours, in_flight, wake_flag, loop_start,
          waited, toggles>>

(***************************************************************************)
(* Bounds of the model.                                                    *)
(***************************************************************************)
MaxHours == 1
MaxAdhocCalls == 1
MaxPipes == 3
MaxToggles == 1

(***************************************************************************)
(* Program constants.                                                      *)
(***************************************************************************)
SecsPerHour == 3600
ApiHost == "https://eu.i.posthog.com"
LocalApiBaseUrl == "http://localhost:3030"
CaptureUrl == ApiHost \o "/capture/"
HealthUrl == LocalApiBaseUrl \o "/health"
PipesUrl == LocalApiBaseUrl \o "/pipes/list"
HostSystem ==
    [os_name |-> "Linux", os_version |-> "22.04", kernel_version |-> "6.1",
     host_name |-> "host", cpu_count |-> 8, total_memory |-> 16]

Startup == "startup"
Periodic == "periodic"
Adhoc == "adhoc"
NoTask == "none"
Tasks == {Startup, Periodic, Adhoc}

(***************************************************************************)
(* Values.                                                                 *)
(***************************************************************************)
EmptyMap == [k \in {} |-> ""]
NoErr == [text |-> "", code |-> 0]
Pending == [state |-> "pending", error |-> NoErr]
Ok == [state |-> "ok", error |-> NoErr]
Err(text, code) == [state |-> "err", error |-> [text |-> text, code |-> code]]

TransportError == [text |-> "error sending request", code |-> 0]
DecodeError == [text |-> "error decoding response body", code |-> 0]

\* serde_json::Value, as far as the code looks into it
JsonNull == [kind |-> "null", s |-> ""]
JsonString(s) == [kind |-> "string", s |-> s]
JsonNumber == [kind |-> "number", s |-> "42"]

\* Option<serde_json::Value> handed to send_event
NoProps == [kind |-> "none", obj |-> EmptyMap]
ObjectProps(m) == [kind |-> "object", obj |-> m]
StringProps == [kind |-> "string", obj |-> EmptyMap]

NoPayload == [api_key |-> "", event |-> "", properties |-> EmptyMap]
NoResponse == [kind |-> "none", status |-> 0, body |-> "none",
               frame_status |-> JsonNull, audio_status |-> JsonNull,
               ui_status |-> JsonNull, data |-> <<>>]

NoFrame ==
    [event |-> "", properties |-> NoProps, flag |-> "unread",
     payload |-> NoPayload, nreq |-> 0, response |-> NoResponse,
     result |-> Pending, ret |-> ""]

Request(method, url, body) == [method |-> method, url |-> url, body |-> body]


HttpResponse(status, body, f, a, u, data) ==
    [kind |-> "http", status |-> status, body |-> body, frame_status |-> f,
     audio_status |-> a, ui_status |-> u, data |-> data]
TransportFailure ==
    [kind |-> "transport_error", status |-> 0, body |-> "none",
     frame_status |-> JsonNull, audio_status |-> JsonNull,
     ui_status |-> JsonNull, data |-> <<>>]

(***************************************************************************)
(* Inputs: what the caller of start_analytics, the host application, the   *)
(* collector and the local service can hand to the program.                *)
(***************************************************************************)
ApiKeys == {"", "phc_key"}
DistinctIds == {"", "user-1"}
\* u64 values as four 16-bit limbs, lowest first
Limb == 2 ^ 16
U64(n) == <<n % Limb, n \div Limb, 0, 0>>
\* 5124095576030432, the least interval_hours whose product with 3600
\* exceeds 2^64 - 1
OverflowingHours == <<48352, 30874, 13398, 18>>
IntervalHours == {U64(0), U64(1)}
IntervalHoursAll == IntervalHours \cup {U64(2), OverflowingHours}

CollectorResponses ==
    {TransportFailure}
    \cup {HttpResponse(s, "none", JsonNull, JsonNull, JsonNull, <<>>) :
            s \in {200, 500}}
CollectorStatuses ==
    {TransportFailure}
    \cup {HttpResponse(s, "none", JsonNull, JsonNull, JsonNull, <<>>) :
            s \in {100, 199, 200, 204, 299, 300, 301, 404, 500}}

FieldValues ==
    {JsonNull, JsonNumber, JsonString("ok"), JsonString("disabled"),
     JsonString("error"), JsonString("unknown"), JsonString("starting")}
Undecodable(status) ==
    HttpResponse(status, "undecodable", JsonNull, JsonNull, JsonNull, <<>>)
HealthBody(status, f, a, u) == HttpResponse(status, "json", f, a, u, <<>>)
HealthResponses ==
    {TransportFailure, Undecodable(200)}
    \cup {HealthBody(s, JsonString("ok"), JsonString("ok"), JsonString("ok")) :
            s \in {199, 300, 404, 500}}
    \cup {Undecodable(503)}
    \cup {HealthBody(s, f, a, u) :
            s \in {200}, f \in FieldValues, a \in FieldValues,
            u \in FieldValues}
    \cup {HealthBody(299, JsonString("ok"), JsonNull, JsonString("ok"))}
HealthSamples ==
    {TransportFailure, Undecodable(200),
     HealthBody(500, JsonString("ok"), JsonString("ok"), JsonString("ok")),
     HealthBody(200, JsonString("ok"), JsonString("disabled"),
                JsonString("ok")),
     HealthBody(200, JsonString("ok"), JsonString("error"), JsonNull)}

PipeInfo(id, en) == [id |-> id, enabled |-> en]
PipeIds == {"a", "b"}
PipeInfos == {PipeInfo(id, en) : id \in PipeIds, en \in BOOLEAN}
PipeLists == UNION {[1 .. n -> PipeInfos] : n \in 0 .. MaxPipes}
PipesBody(status, data) ==
    HttpResponse(status, "json", JsonNull, JsonNull, JsonNull, data)
PipesResponses ==
    {TransportFailure, Undecodable(200), Undecodable(500)}
    \cup {PipesBody(s, d) : s \in {200, 500}, d \in PipeLists}
PipesSamples ==
    {TransportFailure, Undecodable(200),
     PipesBody(200, <<PipeInfo("a", TRUE), PipeInfo("b", FALSE)>>),
     PipesBody(500, <<PipeInfo("b", TRUE), PipeInfo("a", TRUE)>>)}

AdhocEvents == {"search_performed", "app_started", ""}
ExtensionKeys == {"distinct_id", "$lib", "query"}
ExtensionValues == {"", "x"}
ExtensionMaps ==
    UNION {[ks -> ExtensionValues] : ks \in SUBSET ExtensionKeys}
AdhocProps ==
    {NoProps, StringProps} \cup {ObjectProps(m) : m \in ExtensionMaps}
AdhocSamples ==
    {<<"search_performed", NoProps>>,
     <<"app_started", ObjectProps([distinct_id |-> "", query |-> "x"])>>}

\* a success test that lets redirections through
IsSuccessOrRedirect(status) == status \in 200 .. 399

(***************************************************************************)
(* send_event: the payload.                                                *)
(***************************************************************************)
\* reqwest::StatusCode::is_success
IsSuccess(status) == status >= 200 /\ status <= 299

\* json!({ "distinct_id": ..., "$lib": ..., host metadata })
BaseProperties(did) ==
    ("$lib" :> "rust-reqwest") @@
    [distinct_id |-> did,
     os_name |-> HostSystem.os_name,
     os_version |-> HostSystem.os_version,
     kernel_version |-> HostSystem.kernel_version,
     host_name |-> HostSystem.host_name,
     cpu_count |-> HostSystem.cpu_count,
     total_memory |-> HostSystem.total_memory]

\* props.as_object().unwrap_or(&serde_json::Map::new()), None: nothing to merge
ExtensionOf(props) == IF props.kind = "object" THEN props.obj ELSE EmptyMap

\* a merge that keeps the base entry of a key both maps have
ExtendKeepingBase(base, ext) ==
    [k \in DOMAIN base \cup DOMAIN ext |->
        IF k \in DOMAIN base THEN base[k] ELSE ext[k]]

\* payload_props.extend(ext): every entry of ext is inserted, replacing the
\* entry of the same key
ExtendMap(base, ext) ==
    [k \in DOMAIN base \cup DOMAIN ext |->
        IF k \in DOMAIN ext THEN ext[k] ELSE base[k]]

BuildPayload(key, did, event, props) ==
    [api_key |-> key, event |-> event,
     properties |-> ExtendMap(BaseProperties(did), ExtensionOf(props))]

\* a send_event without the early return
SendEventAlways(flag) == TRUE

\* if !*self.enabled.lock().await { return Ok(()); }
SendEventProceeds(flag) == flag

\* the result of send_event once the POST has completed
PostResult(resp) ==
    IF resp.kind = "transport_error" THEN Err(TransportError.text, 0)
    ELSE IF ~IsSuccess(resp.status) THEN Err("PostHog API error: ", resp.status)
    ELSE Ok

(***************************************************************************)
(* check_recording_health.                                                 *)
(***************************************************************************)
AsStrOr(v, default) == IF v.kind = "string" THEN v.s ELSE default

\* a check that lets every status but "error" pass
StatusNotError(s) == s # "error"

StatusOk(s) == s = "ok" \/ s = "disabled"
IsHealthy(f, a, u) == StatusOk(f) /\ StatusOk(a) /\ StatusOk(u)

DegradedStatus(err) ==
    [is_healthy |-> FALSE, frame_status |-> "error", audio_status |-> "error",
     ui_status |-> "error", error |-> err]

HealthOfBody(resp) ==
    LET f == AsStrOr(resp.frame_status, "unknown")
        a == AsStrOr(resp.audio_status, "unknown")
        u == AsStrOr(resp.ui_status, "unknown")
    IN [is_healthy |-> IsHealthy(f, a, u), frame_status |-> f,
        audio_status |-> a, ui_status |-> u]

\* Result<serde_json::Value, _>: [ok, value, error]
NoResult == [ok |-> FALSE, value |-> EmptyMap, error |-> NoErr]
\* a health check that fails on a non-success status
CheckRecordingHealthStrict(resp) ==
    IF resp.kind = "transport_error"
    THEN [ok |-> FALSE, value |-> EmptyMap, error |-> TransportError]
    ELSE IF ~IsSuccess(resp.status)
    THEN [ok |-> FALSE, value |-> EmptyMap,
          error |-> [text |-> "Health check failed with status: ",
                     code |-> resp.status]]
    ELSE IF resp.body = "undecodable"
    THEN [ok |-> FALSE, value |-> EmptyMap, error |-> DecodeError]
    ELSE [ok |-> TRUE, value |-> HealthOfBody(resp), error |-> NoErr]

CheckRecordingHealth(resp) ==
    IF resp.kind = "transport_error"
    THEN [ok |-> FALSE, value |-> EmptyMap, error |-> TransportError]
    ELSE IF ~IsSuccess(resp.status)
    THEN [ok |-> TRUE,
          value |-> DegradedStatus(
                        [text |-> "Health check failed with status: ",
                         code |-> resp.status]),
          error |-> NoErr]
    ELSE IF resp.body = "undecodable"
    THEN [ok |-> FALSE, value |-> EmptyMap, error |-> DecodeError]
    ELSE [ok |-> TRUE, value |-> HealthOfBody(resp), error |-> NoErr]

\* a loop that sends whatever the failed check left
HealthStatusUnchecked(res) == res.value

\* the match in start_periodic_event
HealthStatusOf(res) == IF res.ok THEN res.value ELSE DegradedStatus(res.error)

(***************************************************************************)
(* track_enabled_pipes.                                                    *)
(***************************************************************************)
\* a census that takes an undecodable body for an empty list
PipesAnyBody(resp) == resp.kind = "http"

PipesDecoded(resp) == resp.kind = "http" /\ resp.body = "json"

\* a census that lists the enabled ids last to first
EnabledPipesReversed(data) ==
    LET kept == SelectSeq(data, LAMBDA pipe : pipe.enabled)
    IN [i \in 1 .. Len(kept) |-> kept[Len(kept) + 1 - i].id]

\* a census without the filter
AllPipes(data) == [i \in 1 .. Len(data) |-> data[i].id]

EnabledPipes(data) ==
    LET kept == SelectSeq(data, LAMBDA pipe : pipe.enabled)
    IN [i \in 1 .. Len(kept) |-> kept[i].id]

CensusProperties(data) ==
    [enabled_pipes |-> EnabledPipes(data),
     enabled_pipe_count |-> Len(EnabledPipes(data))]


(***************************************************************************)
(* AnalyticsManager::new and start_analytics.                              *)
(***************************************************************************)
\* enabled: Arc::new(Mutex::new(!cfg!(debug_assertions)))
EnabledDefault(dbg) == ~dbg

\* interval_hours * 3600 on u64, four 16-bit limbs, lowest first: the low 64
\* bits of the product and what is carried out of them
MulU64(x, k) ==
    LET p1 == x[1] * k
        p2 == x[2] * k + p1 \div Limb
        p3 == x[3] * k + p2 \div Limb
        p4 == x[4] * k + p3 \div Limb
    IN [low |-> <<p1 % Limb, p2 % Limb, p3 % Limb, p4 % Limb>>,
        carry |-> p4 \div Limb]

\* Duration::from_secs, in seconds; the products of the model's inputs are
\* below 2^31, their two upper limbs are zero
FromSecs(x) == x[1] + Limb * x[2]

\* interval: Duration::from_secs(interval_hours * 3600), the product wrapped
\* as in a build without overflow checks
IntervalOf(hours) == FromSecs(MulU64(hours, SecsPerHour).low)

\* the multiplication panics on overflow in a build with overflow checks,
\* which cargo's profiles switch with debug assertions
NewPanics(dbg, hours) == dbg /\ MulU64(hours, SecsPerHour).carry # 0

\* if cfg!(debug_assertions) || is_debug
DevelopmentMode(dbg, is_debug) == dbg \/ is_debug

\* a production branch that spawns the periodic task only
SpawnedPeriodicOnly(dev) == IF dev THEN {} ELSE {Periodic}

\* the two tokio::spawn calls of the production branch
SpawnedTasks(dev) == IF dev THEN {} ELSE {Startup, Periodic}

config == <<debug_assertions, env_debug>>
fields == <<posthog_api_key, distinct_id, interval>>
manager == <<posthog_api_key, distinct_id, interval, enabled>>
cycle == <<health_resp, health_result, pipes_resp>>
timer == <<now, tick_deadline, loop_start, waited>>
host == <<adhoc_calls, toggles>>

Init ==
    /\ debug_assertions \in BOOLEAN
    /\ env_debug \in BOOLEAN
    /\ main_pc = "boot"
    /\ interval_hours = U64(0)
    /\ posthog_api_key = ""
    /\ distinct_id = ""
    /\ interval = 0
    /\ enabled = FALSE
    /\ lock_owner = NoTask
    /\ spawned = {}
    /\ pc = [t \in Tasks |-> "idle"]
    /\ frame = [t \in Tasks |-> NoFrame]
    /\ calls = [t \in Tasks |-> <<>>]
    /\ trace = [t \in Tasks |-> <<>>]
    /\ in_flight = [t \in Tasks |-> 0]
    /\ wake_flag = "unread"
    /\ health_resp = NoResponse
    /\ health_result = NoResult
    /\ pipes_resp = NoResponse
    /\ now = 0
    /\ tick_deadline = 0
    /\ loop_start = 0
    /\ waited = FALSE
    /\ adhoc_calls = 0
    /\ toggles = 0

StartAnalytics(key, id, hours) ==
    /\ main_pc = "boot"
    /\ interval_hours' = hours
    /\ IF NewPanics(debug_assertions, hours)
       THEN /\ main_pc' = "panicked"
            /\ UNCHANGED <<manager, spawned, pc>>
       ELSE /\ main_pc' = "running"
            /\ posthog_api_key' = key
            /\ distinct_id' = id
            /\ interval' = IntervalOf(hours)
            /\ enabled' = EnabledDefault(debug_assertions)
            /\ spawned' =
                  SpawnedTasks(DevelopmentMode(debug_assertions, env_debug))
            /\ pc' = [t \in Tasks |-> IF t \in spawned' THEN "start" ELSE pc[t]]
    /\ UNCHANGED <<config, lock_owner, frame, calls, trace, in_flight,
                   wake_flag, cycle, timer, host>>

(***************************************************************************)
(* send_event, run by task t.                                              *)
(***************************************************************************)
NewFrame(event, props, ret) ==
    [NoFrame EXCEPT !.event = event, !.properties = props, !.ret = ret]
Called(t, event, props) ==
    [calls EXCEPT ![t] = Append(@, [event |-> event, properties |-> props])]
FlagRead(flag) == IF flag THEN "true" ELSE "false"

\* a guard that lives until the function returns
GuardKept(t) == t

\* the MutexGuard is a temporary of the if condition: it is dropped, and the
\* lock released, before the body runs
GuardDropped(t) == NoTask

\* a check that clears the flag through the guard
FlagCleared(flag) == FALSE

\* the guard is only read through: *self.enabled.lock().await
FlagKept(flag) == flag

\* a caller that gives up on a failed call, as with the ? operator
ResumeOrAbort(result, ret) == IF result.state = "err" THEN "aborted" ELSE ret

\* if let Err(e) = ... { error!(...) }: the failure is logged and the caller
\* goes on
ResumeAfter(result, ret) == ret

\* self.enabled.lock().await
SendEventLock(t) ==
    /\ pc[t] = "se_lock"
    /\ lock_owner = NoTask
    /\ lock_owner' = t
    /\ pc' = [pc EXCEPT ![t] = "se_check"]
    /\ UNCHANGED <<config, main_pc, interval_hours, manager, spawned, frame,
                   calls, trace, in_flight, wake_flag, cycle, timer, host>>

\* the flag is read and the guard dropped; disabled: return Ok(()), else the
\* payload is built and POSTed to {api_host}/capture/
SendEventCheck(t) ==
    /\ pc[t] = "se_check"
    /\ lock_owner = t
    /\ lock_owner' = GuardDropped(t)
    /\ enabled' = FlagKept(enabled)
    /\ IF SendEventProceeds(enabled)
       THEN LET payload == BuildPayload(posthog_api_key, distinct_id,
                                        frame[t].event, frame[t].properties)
            IN /\ frame' = [frame EXCEPT ![t].flag = FlagRead(enabled),
                                         ![t].payload = payload,
                                         ![t].nreq = @ + 1]
               /\ trace' = [trace EXCEPT ![t] =
                              Append(@, Request("POST", CaptureUrl, payload))]
               /\ in_flight' = [in_flight EXCEPT ![t] = @ + 1]
               /\ pc' = [pc EXCEPT ![t] = "se_post"]
       ELSE /\ frame' = [frame EXCEPT ![t].flag = FlagRead(enabled),
                                         ![t].result = Ok]
            /\ trace' = trace
            /\ in_flight' = in_flight
            /\ pc' = [pc EXCEPT ![t] = ResumeAfter(Ok, frame[t].ret)]
    /\ UNCHANGED <<config, main_pc, interval_hours, fields, spawned, calls,
                   wake_flag, cycle, timer, host>>

\* the POST completes: transport error, or a response with a status
SendEventResponse(t, resp) ==
    /\ pc[t] = "se_post"
    /\ frame' = [frame EXCEPT ![t].result = PostResult(resp),
                              ![t].response = resp]
    /\ in_flight' = [in_flight EXCEPT ![t] = @ - 1]
    /\ pc' = [pc EXCEPT ![t] = ResumeAfter(PostResult(resp), frame[t].ret)]
    /\ UNCHANGED <<config, main_pc, interval_hours, manager, lock_owner,
                   spawned, calls, trace, wake_flag, cycle, timer, host>>

(***************************************************************************)
(* The one-shot task and the host application's own calls.                 *)
(***************************************************************************)
StartupRun ==
    /\ pc[Startup] = "start"
    /\ frame' = [frame EXCEPT ![Startup] =
                   NewFrame("app_started", NoProps, "done")]
    /\ calls' = Called(Startup, "app_started", NoProps)
    /\ pc' = [pc EXCEPT ![Startup] = "se_lock"]
    /\ UNCHANGED <<config, main_pc, interval_hours, manager, lock_owner,
                   spawned, trace, in_flight, wake_flag, cycle, timer, host>>

AdhocCall(event, props) ==
    /\ main_pc = "running"
    /\ pc[Adhoc] = "idle"
    /\ adhoc_calls < MaxAdhocCalls
    /\ adhoc_calls' = adhoc_calls + 1
    /\ frame' = [frame EXCEPT ![Adhoc] = NewFrame(event, props, "idle")]
    /\ calls' = [calls EXCEPT ![Adhoc] =
                   <<[event |-> event, properties |-> props]>>]
    /\ trace' = [trace EXCEPT ![Adhoc] = <<>>]
    /\ pc' = [pc EXCEPT ![Adhoc] = "se_lock"]
    /\ UNCHANGED <<config, main_pc, interval_hours, manager, lock_owner,
                   spawned, in_flight, wake_flag, cycle, timer, toggles>>

\* the host application calls the public start_periodic_event on the handle
\* of a development-mode start, which spawned no task
HostStartsPeriodic ==
    /\ main_pc = "running"
    /\ Periodic \notin spawned
    /\ pc[Periodic] = "idle"
    /\ pc' = [pc EXCEPT ![Periodic] = "start"]
    /\ UNCHANGED <<config, main_pc, interval_hours, manager, lock_owner,
                   spawned, frame, calls, trace, in_flight, wake_flag, cycle,
                   timer, host>>

\* the host application changes the flag, under the lock
Toggle ==
    /\ main_pc = "running"
    /\ toggles < MaxToggles
    /\ lock_owner = NoTask
    /\ enabled' = ~enabled
    /\ toggles' = toggles + 1
    /\ UNCHANGED <<config, main_pc, interval_hours, fields, lock_owner,
                   spawned, pc, frame, calls, trace, in_flight, wake_flag,
                   cycle, timer, adhoc_calls>>

(***************************************************************************)
(* start_periodic_event.                                                   *)
(***************************************************************************)
\* a loop that skips nothing
PeriodicAlways(flag) == TRUE

\* if *self.enabled.lock().await
PeriodicProceeds(flag) == flag

\* a timer that starts the next cycle while requests are in flight
TickUnawaited(p) == p \in {"tick", "health_get", "pipes_get", "se_post"}

\* interval.tick().await is the first statement of the loop body: it is
\* reached when the previous iteration has run to its end
TickAwaited(p) == p = "tick"

\* what track_enabled_pipes returns when the request or the decoding fails
PipesError(resp) ==
    IF resp.kind = "transport_error"
    THEN Err(TransportError.text, 0) ELSE Err(DecodeError.text, 0)

\* tokio::time::interval(period) panics on a zero period; its first tick
\* completes immediately
PeriodicStart ==
    /\ pc[Periodic] = "start"
    /\ IF interval = 0
       THEN /\ pc' = [pc EXCEPT ![Periodic] = "panicked"]
            /\ UNCHANGED <<tick_deadline, loop_start>>
       ELSE /\ pc' = [pc EXCEPT ![Periodic] = "tick"]
            /\ tick_deadline' = now
            /\ loop_start' = now
    /\ UNCHANGED <<config, main_pc, interval_hours, manager, lock_owner,
                   spawned, frame, calls, trace, in_flight, wake_flag, cycle,
                   now, waited, host>>

\* interval.tick().await completes; the next deadline is one period after
\* this one (MissedTickBehavior::Burst)
PeriodicTick ==
    /\ TickAwaited(pc[Periodic])
    /\ now >= tick_deadline
    /\ tick_deadline' = tick_deadline + interval
    /\ waited' = FALSE
    /\ pc' = [pc EXCEPT ![Periodic] = "pe_lock"]
    /\ trace' = [trace EXCEPT ![Periodic] = <<>>]
    /\ frame' = [frame EXCEPT ![Periodic] = NoFrame]
    /\ calls' = [calls EXCEPT ![Periodic] = <<>>]
    /\ wake_flag' = "unread"
    /\ health_resp' = NoResponse
    /\ health_result' = NoResult
    /\ pipes_resp' = NoResponse
    /\ UNCHANGED <<config, main_pc, interval_hours, manager, lock_owner,
                   spawned, in_flight, now, loop_start, host>>

PeriodicLock ==
    /\ pc[Periodic] = "pe_lock"
    /\ lock_owner = NoTask
    /\ lock_owner' = Periodic
    /\ pc' = [pc EXCEPT ![Periodic] = "pe_check"]
    /\ UNCHANGED <<config, main_pc, interval_hours, manager, spawned, frame,
                   calls, trace, in_flight, wake_flag, cycle, timer, host>>

\* if *self.enabled.lock().await { GET {local_api_base_url}/health ... }
PeriodicCheck ==
    /\ pc[Periodic] = "pe_check"
    /\ lock_owner = Periodic
    /\ lock_owner' = GuardDropped(Periodic)
    /\ enabled' = FlagKept(enabled)
    /\ wake_flag' = FlagRead(enabled)
    /\ IF PeriodicProceeds(enabled)
       THEN /\ trace' = [trace EXCEPT ![Periodic] =
                           Append(@, Request("GET", HealthUrl, NoPayload))]
            /\ in_flight' = [in_flight EXCEPT ![Periodic] = @ + 1]
            /\ pc' = [pc EXCEPT ![Periodic] = "health_get"]
       ELSE /\ trace' = trace
            /\ in_flight' = in_flight
            /\ pc' = [pc EXCEPT ![Periodic] = "tick"]
    /\ UNCHANGED <<config, main_pc, interval_hours, fields, spawned, frame,
                   calls, cycle, timer, host>>

\* check_recording_health returns and send_event("app_still_running", ...)
\* is called
HealthResponse(resp) ==
    /\ pc[Periodic] = "health_get"
    /\ health_resp' = resp
    /\ health_result' = CheckRecordingHealth(resp)
    /\ in_flight' = [in_flight EXCEPT ![Periodic] = @ - 1]
    /\ LET health_status == HealthStatusOf(health_result')
       IN /\ frame' = [frame EXCEPT ![Periodic] =
                         NewFrame("app_still_running",
                                  ObjectProps(health_status), "pipes")]
          /\ calls' = Called(Periodic, "app_still_running",
                             ObjectProps(health_status))
    /\ pc' = [pc EXCEPT ![Periodic] = "se_lock"]
    /\ UNCHANGED <<config, main_pc, interval_hours, manager, lock_owner,
                   spawned, trace, wake_flag, pipes_resp, timer, host>>

\* track_enabled_pipes is called: GET {local_api_base_url}/pipes/list
PeriodicTrackPipes ==
    /\ pc[Periodic] = "pipes"
    /\ trace' = [trace EXCEPT ![Periodic] =
                   Append(@, Request("GET", PipesUrl, NoPayload))]
    /\ in_flight' = [in_flight EXCEPT ![Periodic] = @ + 1]
    /\ pc' = [pc EXCEPT ![Periodic] = "pipes_get"]
    /\ UNCHANGED <<config, main_pc, interval_hours, manager, lock_owner,
                   spawned, frame, calls, wake_flag, cycle, timer, host>>

\* the request or its decoding fails: Err, logged, back to the timer; else
\* the census is sent with send_event("enabled_pipes_hourly", ...)
PipesResponse(resp) ==
    /\ pc[Periodic] = "pipes_get"
    /\ pipes_resp' = resp
    /\ in_flight' = [in_flight EXCEPT ![Periodic] = @ - 1]
    /\ IF PipesDecoded(resp)
       THEN /\ frame' = [frame EXCEPT ![Periodic] =
                           NewFrame("enabled_pipes_hourly",
                                    ObjectProps(CensusProperties(resp.data)),
                                    "tick")]
            /\ calls' = Called(Periodic, "enabled_pipes_hourly",
                               ObjectProps(CensusProperties(resp.data)))
            /\ pc' = [pc EXCEPT ![Periodic] = "se_lock"]
       ELSE /\ frame' = frame
            /\ calls' = calls
            /\ pc' = [pc EXCEPT ![Periodic] =
                        ResumeAfter(PipesError(resp), "tick")]
    /\ UNCHANGED <<config, main_pc, interval_hours, manager, lock_owner,
                   spawned, trace, wake_flag, health_resp, health_result,
                   timer, host>>

\* time passes, an hour at a time; a tick() that is not yet due stays
\* suspended meanwhile
AdvanceTime ==
    /\ main_pc = "running"
    /\ now < MaxHours * SecsPerHour
    /\ now' = now + SecsPerHour
    /\ waited' = (waited \/ (pc[Periodic] = "tick" /\ now < tick_deadline))
    /\ UNCHANGED <<config, main_pc, interval_hours, manager, lock_owner,
                   spawned, pc, frame, calls, trace, in_flight, wake_flag,
                   cycle, tick_deadline, loop_start, host>>

Next ==
    \/ \E key \in ApiKeys, id \in DistinctIds, hours \in IntervalHours :
          StartAnalytics(key, id, hours)
    \/ \E t \in Tasks : SendEventLock(t)
    \/ \E t \in Tasks : SendEventCheck(t)
    \/ \E t \in Tasks, resp \in CollectorResponses : SendEventResponse(t, resp)
    \/ StartupRun
    \/ \E call \in AdhocSamples : AdhocCall(call[1], call[2])
    \/ PeriodicStart
    \/ PeriodicTick
    \/ PeriodicLock
    \/ PeriodicCheck
    \/ \E resp \in HealthSamples : HealthResponse(resp)
    \/ PeriodicTrackPipes
    \/ \E resp \in PipesSamples : PipesResponse(resp)
    \/ AdvanceTime

\* the three tasks running concurrently, on sample responses
Spec == Init /\ [][Next]_vars

\* the periodic task running alone, on every response of the input sets
NextPeriodic ==
    \/ \E key \in ApiKeys, id \in DistinctIds, hours \in IntervalHours :
          StartAnalytics(key, id, hours)
    \/ HostStartsPeriodic
    \/ SendEventLock(Periodic)
    \/ SendEventCheck(Periodic)
    \/ \E resp \in CollectorResponses : SendEventResponse(Periodic, resp)
    \/ PeriodicStart
    \/ PeriodicTick
    \/ PeriodicLock
    \/ PeriodicCheck
    \/ \E resp \in HealthResponses : HealthResponse(resp)
    \/ PeriodicTrackPipes
    \/ \E resp \in PipesSamples : PipesResponse(resp)
    \/ AdvanceTime

SpecPeriodic == Init /\ [][NextPeriodic]_vars

\* the host application's calls alone, on every event and properties value
NextAdhoc ==
    \/ \E key \in ApiKeys, id \in DistinctIds, hours \in IntervalHours :
          StartAnalytics(key, id, hours)
    \/ SendEventLock(Adhoc)
    \/ SendEventCheck(Adhoc)
    \/ \E resp \in CollectorStatuses : SendEventResponse(Adhoc, resp)
    \/ \E event \in AdhocEvents, props \in AdhocProps : AdhocCall(event, props)

SpecAdhoc == Init /\ [][NextAdhoc]_vars

\* the periodic task alone, on every pipe list of the input sets
NextCensus ==
    \/ \E key \in ApiKeys, id \in DistinctIds, hours \in IntervalHours :
          StartAnalytics(key, id, hours)
    \/ SendEventLock(Periodic)
    \/ SendEventCheck(Periodic)
    \/ \E resp \in CollectorResponses : SendEventResponse(Periodic, resp)
    \/ PeriodicStart
    \/ PeriodicTick
    \/ PeriodicLock
    \/ PeriodicCheck
    \/ \E resp \in HealthSamples : HealthResponse(resp)
    \/ PeriodicTrackPipes
    \/ \E resp \in PipesResponses : PipesResponse(resp)
    \/ AdvanceTime

SpecCensus == Init /\ [][NextCensus]_vars

\* the periodic task alone, on every interval_hours of the input sets
NextLoop ==
    \/ \E key \in ApiKeys, id \in DistinctIds, hours \in IntervalHoursAll :
          StartAnalytics(key, id, hours)
    \/ HostStartsPeriodic
    \/ SendEventLock(Periodic)
    \/ SendEventCheck(Periodic)
    \/ \E resp \in CollectorResponses : SendEventResponse(Periodic, resp)
    \/ PeriodicStart
    \/ PeriodicTick
    \/ PeriodicLock
    \/ PeriodicCheck
    \/ \E resp \in HealthSamples : HealthResponse(resp)
    \/ PeriodicTrackPipes
    \/ \E resp \in PipesSamples : PipesResponse(resp)
    \/ AdvanceTime

SpecLoop == Init /\ [][NextLoop]_vars

\* the runtime polls a task that can take a step, and every request made is
\* answered, with a response or with a failure
FairLoop ==
    /\ WF_vars(PeriodicStart)
    /\ WF_vars(PeriodicTick)
    /\ WF_vars(PeriodicLock)
    /\ WF_vars(PeriodicCheck)
    /\ WF_vars(PeriodicTrackPipes)
    /\ WF_vars(SendEventLock(Periodic))
    /\ WF_vars(SendEventCheck(Periodic))
    /\ WF_vars(\E resp \in HealthSamples : HealthResponse(resp))
    /\ WF_vars(\E resp \in PipesSamples : PipesResponse(resp))
    /\ WF_vars(\E resp \in CollectorResponses :
                  SendEventResponse(Periodic, resp))

SpecLoopFair == Init /\ [][NextLoop]_vars /\ FairLoop

\* the three tasks and a host application that changes the flag
NextToggle ==
    \/ Next
    \/ HostStartsPeriodic
    \/ Toggle

SpecToggle == Init /\ [][NextToggle]_vars


(***************************************************************************)
(* Properties.                                                             *)
(***************************************************************************)
Posts(t) == SelectSeq(trace[t], LAMBDA r : r.method = "POST")
Returned(t) == frame[t].result.state # "pending"

\* C1: a send_event call that read the enabled flag as false has returned
\* Ok(()) to its caller and has issued no HTTP request: none is counted for
\* the call, nothing of it is in flight, and the host application's call
\* leaves no request behind.
C1_DisabledSendIsNoOp ==
    \A t \in Tasks :
        frame[t].flag = "false" =>
            /\ frame[t].result = Ok
            /\ frame[t].nreq = 0
            /\ frame[t].payload = NoPayload
            /\ pc[t] = frame[t].ret
            /\ (t = Adhoc => trace[t] = <<>>)

C1_Witness ==
    /\ ~enabled
    /\ frame[Adhoc].flag = "false"
    /\ frame[Adhoc].event = "app_started"
    /\ frame[Adhoc].properties =
          ObjectProps([distinct_id |-> "x", query |-> ""])
    /\ frame[Adhoc].result = Ok

\* C6: the properties of a payload posted by send_event are the base
\* properties overridden by the extension: every key of an extension map
\* has the extension's value, every other base key its base value, and
\* there are no other keys; no extension, or one that is not a map, leaves
\* the base properties as they are.  The request posted carries that payload.
C6_ExtensionOverridesBase ==
    \A t \in Tasks :
        frame[t].flag = "true" =>
            LET base == BaseProperties(distinct_id)
                props == frame[t].payload.properties
                ext == frame[t].properties
            IN /\ frame[t].payload.event = frame[t].event
               /\ Len(Posts(t)) > 0
               /\ Posts(t)[Len(Posts(t))].body = frame[t].payload
               /\ IF ext.kind = "object"
                  THEN /\ DOMAIN props = DOMAIN base \cup DOMAIN ext.obj
                       /\ \A k \in DOMAIN ext.obj : props[k] = ext.obj[k]
                       /\ \A k \in DOMAIN base \ DOMAIN ext.obj :
                             props[k] = base[k]
                  ELSE props = base

C6_Witness ==
    /\ frame[Adhoc].flag = "true"
    /\ distinct_id = "user-1"
    /\ frame[Adhoc].properties =
          ObjectProps(("$lib" :> "x") @@ [distinct_id |-> ""])
    /\ frame[Adhoc].payload.properties["distinct_id"] = ""
    /\ frame[Adhoc].payload.properties["$lib"] = "x"
    /\ frame[Adhoc].payload.properties["os_name"] = HostSystem.os_name


HealthAnswered == health_resp.kind # "none"
PipesAnswered == pipes_resp.kind # "none"
Is2xx(status) == status \in 200 .. 299
StatusKeys == {"frame_status", "audio_status", "ui_status"}
Urls(t) == [i \in 1 .. Len(trace[t]) |-> trace[t][i].url]

\* C2: for a 2xx, decodable health response, with each status read as
\* "unknown" when absent or not a string, check_recording_health returns Ok
\* with the three statuses as read and is_healthy true exactly when each of
\* them is "ok" or "disabled"; it reports no error field.
C2_HealthyIffAllOkOrDisabled ==
    (health_resp.kind = "http" /\ Is2xx(health_resp.status)
        /\ health_resp.body = "json") =>
        LET read == [k \in StatusKeys |->
                        IF health_resp[k].kind = "string"
                        THEN health_resp[k].s ELSE "unknown"]
            value == health_result.value
        IN /\ health_result.ok
           /\ DOMAIN value = StatusKeys \cup {"is_healthy"}
           /\ \A k \in StatusKeys : value[k] = read[k]
           /\ value.is_healthy <=>
                 \A k \in StatusKeys : read[k] \in {"ok", "disabled"}

C2_Witness ==
    /\ health_resp.kind = "http"
    /\ health_resp.status = 200
    /\ health_resp.frame_status = JsonString("ok")
    /\ health_resp.audio_status = JsonNull
    /\ health_resp.ui_status = JsonString("disabled")
    /\ health_result.ok
    /\ health_result.value.audio_status = "unknown"
    /\ ~health_result.value.is_healthy

\* C3: a health response with a non-success status makes
\* check_recording_health return Ok with is_healthy false, the three
\* statuses "error" and an error string holding the status code; it
\* returns Err only for a transport failure or an undecodable 2xx body.
C3_NonSuccessIsDegradedOk ==
    /\ (health_resp.kind = "http" /\ ~Is2xx(health_resp.status)) =>
          /\ health_result.ok
          /\ DOMAIN health_result.value =
                StatusKeys \cup {"is_healthy", "error"}
          /\ ~health_result.value.is_healthy
          /\ \A k \in StatusKeys : health_result.value[k] = "error"
          /\ health_result.value.error.text # ""
          /\ health_result.value.error.code = health_resp.status
    /\ (HealthAnswered /\ ~health_result.ok) =>
          \/ health_resp.kind = "transport_error"
          \/ Is2xx(health_resp.status) /\ health_resp.body = "undecodable"

C3_Witness ==
    /\ health_resp.kind = "http"
    /\ health_resp.status = 500
    /\ health_result.ok
    /\ health_result.value.error.code = 500
    /\ Len(Posts(Periodic)) = 1

\* C4: in a periodic cycle whose health check failed (transport error or
\* undecodable response), the loop has called
\* send_event("app_still_running") with is_healthy false, the three statuses
\* "error" and the failure message as error, and once that call is past its
\* flag check the payload posted carries these properties.
C4_FailedHealthCheckStillSends ==
    (HealthAnswered /\ ~health_result.ok) =>
        LET degraded == [is_healthy |-> FALSE, frame_status |-> "error",
                         audio_status |-> "error", ui_status |-> "error",
                         error |-> health_result.error]
        IN /\ health_result.error \in {TransportError, DecodeError}
           /\ Len(calls[Periodic]) >= 1
           /\ calls[Periodic][1] =
                 [event |-> "app_still_running",
                  properties |-> ObjectProps(degraded)]
           /\ \/ /\ pc[Periodic] \in {"se_lock", "se_check"}
                 /\ frame[Periodic].event = "app_still_running"
              \/ /\ Len(Posts(Periodic)) >= 1
                 /\ Posts(Periodic)[1].body.event = "app_still_running"
                 /\ \A k \in DOMAIN degraded :
                       Posts(Periodic)[1].body.properties[k] = degraded[k]

C4_Witness ==
    /\ health_resp = Undecodable(200)
    /\ ~health_result.ok
    /\ Len(Posts(Periodic)) = 1
    /\ Posts(Periodic)[1].body.properties["error"] = DecodeError
    /\ pc[Periodic] = "pipes"

\* C5: when the pipes-list request or its decoding failed in a periodic
\* cycle, the cycle has done the health check and the app_still_running
\* send before it (GET /health, POST /capture/, GET /pipes/list, in this
\* order), has made no enabled_pipes_hourly call or POST, and the loop is
\* back waiting on the timer.
C5_PipesFailureSkipsCensusOnly ==
    (/\ PipesAnswered
     /\ ~(pipes_resp.kind = "http" /\ pipes_resp.body = "json")) =>
        /\ HealthAnswered
        /\ Len(calls[Periodic]) = 1
        /\ calls[Periodic][1].event = "app_still_running"
        /\ frame[Periodic].event = "app_still_running"
        /\ Returned(Periodic)
        /\ Urls(Periodic) = <<HealthUrl, CaptureUrl, PipesUrl>>
        /\ \A i \in 1 .. Len(trace[Periodic]) :
              trace[Periodic][i].body.event # "enabled_pipes_hourly"
        /\ pc[Periodic] = "tick"

C5_Witness ==
    /\ pipes_resp = TransportFailure
    /\ health_resp.kind = "http"
    /\ frame[Periodic].result.state = "err"
    /\ pc[Periodic] = "tick"
    /\ tick_deadline > now

\* C7: a periodic cycle that ran with the flag enabled and has ended with a
\* 2xx decodable health response, a 2xx decodable pipes response and the
\* census accepted by the collector has issued GET /health, POST, GET
\* /pipes/list, POST in this order; its two POSTs are "app_still_running"
\* with the health status returned by the check, then
\* "enabled_pipes_hourly" with the ids of the enabled pipes and their
\* number.  For ok/disabled/ok and pipes [a enabled, b not enabled]:
\* is_healthy = true, enabled_pipes = <<"a">>, enabled_pipe_count = 1.
C7_CyclePostsTwoEventsInOrder ==
    (/\ pc[Periodic] = "tick"
     /\ health_resp.kind = "http" /\ Is2xx(health_resp.status)
     /\ health_resp.body = "json"
     /\ pipes_resp.kind = "http" /\ Is2xx(pipes_resp.status)
     /\ pipes_resp.body = "json"
     /\ frame[Periodic].result = Ok) =>
        LET posts == Posts(Periodic)
            first == posts[1].body
            second == posts[2].body
            data == pipes_resp.data
            on == {i \in 1 .. Len(data) : data[i].enabled}
        IN /\ Urls(Periodic) = <<HealthUrl, CaptureUrl, PipesUrl, CaptureUrl>>
           /\ Len(posts) = 2
           /\ first.event = "app_still_running"
           /\ \A k \in StatusKeys \cup {"is_healthy"} :
                 first.properties[k] = health_result.value[k]
           /\ second.event = "enabled_pipes_hourly"
           /\ second.properties["enabled_pipe_count"] = Cardinality(on)
           /\ Len(second.properties["enabled_pipes"]) = Cardinality(on)
           /\ \A id \in PipeIds :
                 (\E i \in on : data[i].id = id) <=>
                 (\E j \in 1 .. Len(second.properties["enabled_pipes"]) :
                     second.properties["enabled_pipes"][j] = id)
           /\ (/\ health_resp.frame_status = JsonString("ok")
               /\ health_resp.audio_status = JsonString("disabled")
               /\ health_resp.ui_status = JsonString("ok")
               /\ data = <<PipeInfo("a", TRUE), PipeInfo("b", FALSE)>>) =>
                 /\ first.properties["is_healthy"] = TRUE
                 /\ second.properties["enabled_pipes"] = <<"a">>
                 /\ second.properties["enabled_pipe_count"] = 1

C7_Witness ==
    /\ pc[Periodic] = "tick"
    /\ health_resp = HealthBody(200, JsonString("ok"), JsonString("disabled"),
                                JsonString("ok"))
    /\ pipes_resp =
          PipesBody(200, <<PipeInfo("a", TRUE), PipeInfo("b", FALSE)>>)
    /\ frame[Periodic].result = Ok
    /\ Len(Posts(Periodic)) = 2
    /\ Posts(Periodic)[2].body.properties["enabled_pipes"] = <<"a">>

\* C8: once start_analytics has returned through the development-mode
\* branch (debug assertions, or TAURI_ENV_DEBUG = "true"), no task is
\* spawned and the enabled flag of the handle is false.
C8_DevelopmentHandleIsDisabled ==
    (main_pc = "running" /\ (debug_assertions \/ env_debug)) =>
        /\ spawned = {}
        /\ ~enabled

\* C9: in production mode start_analytics returns a handle whose flag is
\* true and spawns the one-shot task and the periodic task, and no other;
\* the one-shot task calls send_event("app_started") once, posts it at most
\* once and is then done; the periodic task neither calls nor posts
\* "app_started".
C9_ProductionSpawnsTwoTasks ==
    (main_pc = "running" /\ ~debug_assertions /\ ~env_debug) =>
        /\ enabled
        /\ spawned = {Startup, Periodic}
        /\ pc[Startup] \in {"start", "se_lock", "se_check", "se_post", "done"}
        /\ pc[Periodic] # "idle"
        /\ Len(calls[Startup]) = (IF pc[Startup] = "start" THEN 0 ELSE 1)
        /\ \A i \in 1 .. Len(calls[Startup]) :
              calls[Startup][i] =
                 [event |-> "app_started", properties |-> NoProps]
        /\ Len(trace[Startup]) =
              (IF pc[Startup] \in {"se_post", "done"} THEN 1 ELSE 0)
        /\ \A i \in 1 .. Len(trace[Startup]) :
              /\ trace[Startup][i].method = "POST"
              /\ trace[Startup][i].body.event = "app_started"
        /\ \A i \in 1 .. Len(calls[Periodic]) :
              calls[Periodic][i].event # "app_started"
        /\ \A i \in 1 .. Len(trace[Periodic]) :
              trace[Periodic][i].body.event # "app_started"

C9_Witness ==
    /\ main_pc = "running" /\ ~debug_assertions /\ ~env_debug
    /\ pc[Startup] = "done"
    /\ Len(Posts(Startup)) = 1
    /\ Len(Posts(Periodic)) = 2
    /\ pc[Periodic] = "tick"

\* C10: every payload posted to the collector, by any task, carries a
\* non-empty API key and a non-empty distinct_id.
C10_PayloadCarriesKeyAndIdentity ==
    \A t \in Tasks :
        \A i \in 1 .. Len(trace[t]) :
            trace[t][i].method = "POST" =>
                /\ trace[t][i].body.api_key # ""
                /\ trace[t][i].body.properties["distinct_id"] # ""

\* C11: a send_event call that read the flag as true issues one POST to
\* {api_host}/capture/ and no other request: one request is counted, it is
\* in flight until the call returns, and the call returns as soon as it is
\* answered.  It returns Ok exactly when the answer is a response with a
\* status in 200..299, and an error for a transport failure and for every
\* other status, the error carrying the status.
C11_OnePostSuccessIffSuccessStatus ==
    \A t \in Tasks :
        frame[t].flag = "true" =>
            LET resp == frame[t].response
            IN /\ frame[t].nreq = 1
               /\ Len(Posts(t)) > 0
               /\ Posts(t)[Len(Posts(t))] =
                     Request("POST", CaptureUrl, frame[t].payload)
               /\ (t = Adhoc => Len(trace[t]) = 1 /\ in_flight[t] <= 1)
               /\ (Returned(t) <=> resp.kind # "none")
               /\ (~Returned(t) <=> pc[t] = "se_post")
               /\ (~Returned(t) => in_flight[t] = 1)
               /\ (t = Adhoc /\ Returned(t) =>
                     pc[t] = frame[t].ret /\ in_flight[t] = 0)
               /\ (Returned(t) =>
                     /\ frame[t].result = Ok <=>
                           (resp.kind = "http" /\ Is2xx(resp.status))
                     /\ resp.kind = "transport_error" =>
                           frame[t].result.state = "err"
                     /\ (resp.kind = "http" /\ ~Is2xx(resp.status)) =>
                           /\ frame[t].result.state = "err"
                           /\ frame[t].result.error.code = resp.status)

C11_Witness ==
    /\ frame[Adhoc].flag = "true"
    /\ frame[Adhoc].nreq = 1
    /\ frame[Adhoc].response.kind = "http"
    /\ frame[Adhoc].response.status = 301
    /\ frame[Adhoc].result.state = "err"
    /\ frame[Adhoc].result.error.code = 301
    /\ pc[Adhoc] = "idle"

\* C12: a wake of the periodic loop that read the flag as false skips the
\* cycle: the loop is back at interval.tick() with the lock released, and
\* since the wake it has issued no request (no GET /health, no GET
\* /pipes/list, no POST), has none in flight and has called send_event for
\* no event.
C12_DisabledWakeSkipsCycle ==
    wake_flag = "false" =>
        /\ pc[Periodic] = "tick"
        /\ lock_owner # Periodic
        /\ trace[Periodic] = <<>>
        /\ in_flight[Periodic] = 0
        /\ calls[Periodic] = <<>>
        /\ frame[Periodic] = NoFrame
        /\ ~HealthAnswered
        /\ ~PipesAnswered

C12_Witness ==
    /\ ~enabled
    /\ wake_flag = "false"
    /\ pc[Periodic] = "tick"
    /\ now < tick_deadline
    /\ trace[Periodic] = <<>>

\* C13: every wake of the periodic loop, the first one included, comes after
\* a suspension on the timer: when interval.tick() completes and a cycle
\* begins, at least one interval has elapsed since start_periodic_event
\* created the timer, and the tick was suspended before it completed.
C13_EveryWakeFollowsASuspension ==
    [][(pc[Periodic] = "tick" /\ pc'[Periodic] = "pe_lock") =>
          (now >= loop_start + interval /\ waited)]_vars

\* C14: for every pipe list the reporter decodes, the census handed to
\* send_event as "enabled_pipes_hourly" has the keys enabled_pipes and
\* enabled_pipe_count only; enabled_pipes holds the id of each record whose
\* enabled is true, at the place its rank among those records gives it
\* (response order, duplicates kept), and nothing else; enabled_pipe_count
\* is its length.  A payload posted for it carries both.
C14_CensusListsEnabledIdsInOrder ==
    (PipesAnswered /\ PipesDecoded(pipes_resp)) =>
        LET data == pipes_resp.data
            on == {i \in 1 .. Len(data) : data[i].enabled}
            rank(i) == Cardinality({j \in on : j <= i})
            call == calls[Periodic][Len(calls[Periodic])]
            census == call.properties.obj
        IN /\ Len(calls[Periodic]) = 2
           /\ call.event = "enabled_pipes_hourly"
           /\ call.properties.kind = "object"
           /\ DOMAIN census = {"enabled_pipes", "enabled_pipe_count"}
           /\ Len(census.enabled_pipes) = Cardinality(on)
           /\ \A i \in on : census.enabled_pipes[rank(i)] = data[i].id
           /\ census.enabled_pipe_count = Len(census.enabled_pipes)
           /\ frame[Periodic].flag = "true" =>
                 /\ frame[Periodic].payload.event = "enabled_pipes_hourly"
                 /\ \A k \in DOMAIN census :
                       frame[Periodic].payload.properties[k] = census[k]

C14_Witness ==
    /\ pipes_resp = PipesBody(200, <<PipeInfo("b", TRUE), PipeInfo("a", FALSE),
                                     PipeInfo("b", TRUE)>>)
    /\ frame[Periodic].flag = "true"
    /\ frame[Periodic].payload.properties["enabled_pipes"] = <<"b", "b">>
    /\ frame[Periodic].payload.properties["enabled_pipe_count"] = 2

\* C15: the lock on the enabled flag is held only between its acquisition
\* and the read of the flag: a task that has an HTTP request in flight does
\* not hold it, whoever holds it has no request in flight and is at the read
\* that releases it, and a task that is about to acquire it, as the periodic
\* loop is in its nested send_event calls, does not hold it already.
C15_NoLockAcrossRequests ==
    \A t \in Tasks :
        /\ in_flight[t] > 0 => lock_owner # t
        /\ pc[t] \in {"se_post", "health_get", "pipes_get"} => lock_owner # t
        /\ pc[t] \in {"se_lock", "pe_lock"} => lock_owner # t
        /\ lock_owner = t <=> pc[t] \in {"se_check", "pe_check"}

C15_Witness ==
    /\ pc[Startup] = "se_post"
    /\ in_flight[Startup] = 1
    /\ lock_owner = Periodic
    /\ pc[Periodic] = "se_check"
    /\ frame[Periodic].event = "enabled_pipes_hourly"
    /\ pc[Adhoc] = "se_lock"

\* the events one cycle of the periodic loop sends behind its wake-time check
CycleEvents == <<"app_still_running", "enabled_pipes_hourly">>

\* the events task t has sent or skipped on its latest read of the flag,
\* the task having taken no step since that read decided them: the POST a
\* send_event has in flight, the event a send_event skipped, the events of
\* a cycle the periodic loop skipped
EventsBehindCheck(t) ==
    (IF pc[t] = "se_post" /\ frame[t].flag = FlagRead(enabled)
     THEN 1 ELSE 0)
    + (IF pc[t] = frame[t].ret /\ frame[t].flag = "false" /\ ~enabled
       THEN 1 ELSE 0)
    + (IF t = Periodic /\ pc[t] = "tick" /\ wake_flag = "false" /\ ~enabled
       THEN Len(CycleEvents) ELSE 0)

\* C16: when the flag changes while the tasks run, each task has at most
\* one event that was sent or skipped on the value it read before the
\* change and that the change makes stale, for a send_event call and for a
\* periodic cycle alike.
C16_OneChangeStalesOneEvent ==
    [][(main_pc = "running" /\ enabled' # enabled) =>
          \A t \in Tasks : EventsBehindCheck(t) <= 1]_vars

RequestsTo(t, url) == {i \in 1 .. Len(trace[t]) : trace[t][i].url = url}

\* C17: the periodic loop runs one cycle at a time: it has at most one
\* request in flight, since a wake it has made at most one GET /health, one
\* GET /pipes/list and two POSTs, and it is back at interval.tick() only
\* with nothing in flight, the lock released and the cycle run to its end:
\* skipped, or the census fetch failed, or the census send returned.  A
\* timer that comes due during a cycle starts nothing.
C17_OneCycleAtATime ==
    /\ in_flight[Periodic] <= 1
    /\ in_flight[Periodic] = 1 <=>
          pc[Periodic] \in {"health_get", "pipes_get", "se_post"}
    /\ Cardinality(RequestsTo(Periodic, HealthUrl)) <= 1
    /\ Cardinality(RequestsTo(Periodic, PipesUrl)) <= 1
    /\ Cardinality(RequestsTo(Periodic, CaptureUrl)) <= 2
    /\ pc[Periodic] = "tick" =>
          /\ in_flight[Periodic] = 0
          /\ lock_owner # Periodic
          /\ \/ calls[Periodic] = <<>>
             \/ /\ Len(calls[Periodic]) = 1
                /\ Returned(Periodic)
                /\ PipesAnswered
                /\ ~PipesDecoded(pipes_resp)
             \/ /\ Len(calls[Periodic]) = 2
                /\ frame[Periodic].event = "enabled_pipes_hourly"
                /\ Returned(Periodic)

C17_Witness ==
    /\ pc[Periodic] = "se_post"
    /\ frame[Periodic].event = "app_still_running"
    /\ in_flight[Periodic] = 1
    /\ interval > 0
    /\ now >= tick_deadline
    /\ Cardinality(RequestsTo(Periodic, HealthUrl)) = 1

StillRunningFailed ==
    /\ frame[Periodic].event = "app_still_running"
    /\ frame[Periodic].result.state = "err"

\* C18: no failure of a step ends the periodic loop or keeps the other step
\* from running.  While the failed send of app_still_running is the last
\* send of the cycle, the loop is at the pipe census or, the fetch having
\* been answered, back at the timer; the failure leads to GET /pipes/list
\* in the same cycle; every cycle that starts leads back to
\* interval.tick(); and every tick that is due leads to a wake.
C18_FailuresDoNotStopTheLoop ==
    /\ [](StillRunningFailed =>
             \/ pc[Periodic] \in {"pipes", "pipes_get"}
             \/ pc[Periodic] = "tick" /\ PipesAnswered)
    /\ (StillRunningFailed ~> RequestsTo(Periodic, PipesUrl) # {})
    /\ (pc[Periodic] = "pe_lock" ~> pc[Periodic] = "tick")
    /\ ((pc[Periodic] = "tick" /\ now >= tick_deadline) ~>
           pc[Periodic] = "pe_lock")

C18_Witness ==
    /\ StillRunningFailed
    /\ frame[Periodic].response = TransportFailure
    /\ pc[Periodic] = "pipes_get"
    /\ in_flight[Periodic] = 1

\* C19: no interval_hours is fatal: once start_analytics has been called,
\* construction has succeeded, the product interval_hours * 3600 has not
\* left 64 bits and is the timer's period in seconds, and
\* start_periodic_event has not aborted.
C19_NoConfigurationIsFatal ==
    main_pc # "boot" =>
        /\ main_pc = "running"
        /\ MulU64(interval_hours, SecsPerHour).carry = 0
        /\ interval = FromSecs(MulU64(interval_hours, SecsPerHour).low)
        /\ pc[Periodic] # "panicked"

\* three further statements of what C19 says goes right, one per input
C19_ZeroHoursLoopRuns ==
    (main_pc = "running" /\ interval_hours = U64(0)) =>
        pc[Periodic] # "panicked"
C19_OverflowConstructs ==
    interval_hours = OverflowingHours => main_pc # "panicked"
C19_OverflowPeriodIsProduct ==
    (main_pc = "running" /\ interval_hours = OverflowingHours) =>
        MulU64(interval_hours, SecsPerHour).carry = 0

\* C20: no operation of the reporter writes the enabled flag: no step taken
\* after construction changes it, so it keeps the value
\* AnalyticsManager::new gave it.
C20_NoOperationWritesTheFlag ==
    /\ [][main_pc = "running" => enabled' = enabled]_vars
    /\ [](main_pc = "running" => enabled = EnabledDefault(debug_assertions))

C20_Witness ==
    /\ enabled = EnabledDefault(debug_assertions)
    /\ pc[Startup] = "done"
    /\ frame[Startup].flag = "true"
    /\ adhoc_calls = 1
    /\ pc[Adhoc] = "idle"
    /\ frame[Adhoc].flag = "true"
    /\ pc[Periodic] = "tick"
    /\ wake_flag = "true"
    /\ Len(calls[Periodic]) = 2
    /\ Returned(Periodic)

====
